---- MODULE Spec2Model ----
(***************************************************************************)
(* Stratum gateway of the mining pool proxy (proxy/stratum.go): the accept *)
(* loop, one reader task per session, the protocol dispatch of             *)
(* handleTCPMessage, the per-session stale-job cache, and the broadcaster  *)
(* with one worker per session.                                            *)
(*                                                                         *)
(* Strings that the code only compares are TLA+ strings.  Hex strings that *)
(* the code slices or concatenates (hashes, extranonces, nonces) are       *)
(* sequences of integer tokens: token 0 is the "0x" prefix, 10+k / 20+k    *)
(* are the header / seed of template k, 1..NumExtranonces are extranonces, *)
(* 100+m are miner nonces.  A job ID is an integer; 0 is the empty string  *)
(* of a zero-valued jobDetails.                                            *)
(***************************************************************************)
EXTENDS Integers, Sequences, FiniteSets, TLC

\* ---- bounds of the model ----
\* MaxSessions session objects exist; the specifications with requests and
\* broadcasts construct at most LifeSessions of them.
MaxSessions == 3
LifeSessions == 2
MaxConn == 2
NumExtranonces == 2
NumIPs == 1
MaxTpl == 2
MaxSlots == 1
MaxBcast == 1
MaxCollide == 0
MaxPush == 13
CacheTpl == 1

\* ---- program constants ----
EthProxy == 0
NiceHash == 1
Unset == -1
MaxStale == 10
KeepStale == 3

Sess == 1..MaxSessions
IPs == 1..NumIPs
Bcasts == 1..MaxSlots
Reader == 0

VARIABLES
    lpc,          \* accept loop: "accept" | "spin" (inside uniqExtranonce) | "sem" (at accept <- n)
    nSess,        \* sessions constructed so far; session objects are 1..nSess
    Extranonces,  \* s.Extranonces, the keys of the map
    sessions,     \* s.sessions, the keys of the map
    banned,       \* the policy's ban list
    tpl,          \* currentBlockTemplate(): 0 is nil, k is template k
    nB,           \* broadcasts started
    bTpl,         \* the reply captured by each broadcast in flight (its template)
    wk,           \* wk[b][s]: the worker of broadcast b (in flight) for session s
    nColl,        \* draws of randomHex(8) that repeated a job ID the session still holds
    pc,           \* reader goroutine of each session
    ip, closed, Extranonce, ExtranonceSub, stratum, login,
    JobDetails, staleJobs, staleJobIDs,
    wlock,        \* the session mutex: the set of its holders (Reader or a broadcast number)
    enc,          \* tasks inside cs.enc.Encode
    todo,         \* what is left of the handler running in the reader
    cur,          \* the request being handled, or what ended the reading
    out,          \* frames the handler of the request in cur has written
    fwd           \* params handed to handleTCPSubmitRPC for this request

vars == <<lpc, nSess, Extranonces, sessions, banned, tpl, nB, bTpl, wk,
          nColl, pc, ip, closed, Extranonce, ExtranonceSub, stratum, login,
          JobDetails, staleJobs, staleJobIDs, wlock, enc, todo, cur, out, fwd>>

srvVars == <<Extranonces, sessions, banned>>
lisVars == <<lpc, nSess>>
bcVars == <<nB, bTpl, wk>>
jobVars == <<JobDetails, staleJobs, staleJobIDs>>
lockVars == <<wlock, enc>>
reqVars == <<todo, cur, out, fwd>>
idVars == <<ip, closed, Extranonce>>

\* ---- values ----
NoReq == [method |-> "", id |-> 0, pok |-> TRUE, params |-> <<>>]
NoJob == [JobID |-> 0, SeedHash |-> <<>>, HeaderHash |-> <<>>]
EmptyMap == [j \in {} |-> NoJob]

\* BlockTemplate k as the upstream hands it out: 0x-prefixed header and seed.
Template(k) == [Header |-> <<0, 10 + k>>, Seed |-> <<0, 20 + k>>]

Frame(shape, id, body) == [shape |-> shape, id |-> id, body |-> body]

MapSet(m, k, v) == [x \in (DOMAIN m) \cup {k} |-> IF x = k THEN v ELSE m[x]]
MapDel(m, ks) == [x \in (DOMAIN m) \ ks |-> m[x]]
Range(q) == {q[i] : i \in 1..Len(q)}

Init ==
    /\ lpc = "accept" /\ nSess = 0
    /\ Extranonces = {} /\ sessions = {} /\ banned = {}
    /\ tpl = 0 /\ nB = 0
    /\ bTpl = [b \in Bcasts |-> 0]
    /\ wk = [b \in Bcasts |-> [s \in Sess |-> [st |-> "none", frame |-> [shape |-> "", id |-> 0, body |-> <<>>]]]]
    /\ nColl = 0
    /\ pc = [s \in Sess |-> "none"]
    /\ ip = [s \in Sess |-> 0]
    /\ closed = [s \in Sess |-> FALSE]
    /\ Extranonce = [s \in Sess |-> 0]
    /\ ExtranonceSub = [s \in Sess |-> FALSE]
    /\ stratum = [s \in Sess |-> Unset]
    /\ login = [s \in Sess |-> ""]
    /\ JobDetails = [s \in Sess |-> NoJob]
    /\ staleJobs = [s \in Sess |-> EmptyMap]
    /\ staleJobIDs = [s \in Sess |-> <<>>]
    /\ wlock = [s \in Sess |-> {}]
    /\ enc = [s \in Sess |-> {}]
    /\ todo = [s \in Sess |-> <<>>]
    /\ cur = [s \in Sess |-> NoReq]
    /\ out = [s \in Sess |-> <<>>]
    /\ fwd = [s \in Sess |-> <<>>]

\* ---- the pool-wide lock s.sessionsMu ----
\* The accept loop holds the read lock while it is inside uniqExtranonce; every
\* other critical section of sessionsMu is one step of this model.
AllHeld == Extranonces = 1..NumExtranonces
MuWriteFree == lpc # "spin"

\* ---- extranonce registry and session table ----
\* randomHex(4): any value of the extranonce space.
randomHex4 == 1..NumExtranonces

\* The values uniqExtranonce can return: it redraws while the draw is a key of
\* s.Extranonces.
uniqExtranonce == {e \in randomHex4 : e \notin Extranonces}

registerSession(s) == sessions' = sessions \cup {s}

removeSession(s) ==
    /\ MuWriteFree
    /\ Extranonces' = Extranonces \ {Extranonce[s]}
    /\ sessions' = sessions \ {s}

\* ---- ListenTCP ----
Running == {s \in Sess : pc[s] \notin {"none", "new", "done"}}

\* A connection the policy gate turns away is closed and the loop continues.
AcceptReject(i, limitOk) ==
    /\ lpc = "accept"
    /\ i \in banned \/ ~limitOk
    /\ UNCHANGED vars

\* Accept, policy gate, uniqExtranonce and the construction of the Session.
Accept(i, e) ==
    /\ lpc = "accept" /\ nSess < MaxSessions
    /\ i \notin banned
    /\ e \in uniqExtranonce
    /\ Extranonces' = Extranonces \cup {e}
    /\ nSess' = nSess + 1
    /\ lpc' = "sem"
    /\ pc' = [pc EXCEPT ![nSess + 1] = "new"]
    /\ ip' = [ip EXCEPT ![nSess + 1] = i]
    /\ Extranonce' = [Extranonce EXCEPT ![nSess + 1] = e]
    /\ UNCHANGED <<sessions, banned, tpl, bcVars, nColl, closed,
                   ExtranonceSub, stratum, login, jobVars, lockVars, reqVars>>

\* uniqExtranonce with every value held: the loop at lines 667-673 redraws for
\* ever, with the read lock held.
AcceptSpin(i) ==
    /\ lpc = "accept" /\ i \notin banned
    /\ AllHeld
    /\ lpc' = "spin"
    /\ UNCHANGED <<nSess, srvVars, tpl, bcVars, nColl, pc, idVars,
                   ExtranonceSub, stratum, login, jobVars, lockVars, reqVars>>

UniqRetry ==
    /\ lpc = "spin" /\ AllHeld
    /\ UNCHANGED vars

\* A goroutine that starts without waiting for a slot of accept.
SpawnUnbounded ==
    /\ lpc = "sem"
    /\ pc' = [pc EXCEPT ![nSess] = "read"]
    /\ lpc' = "accept"
    /\ UNCHANGED <<nSess, srvVars, tpl, bcVars, nColl, idVars,
                   ExtranonceSub, stratum, login, jobVars, lockVars, reqVars>>

\* accept <- n, then the goroutine starts handleTCPClient up to its first read.
Spawn ==
    /\ lpc = "sem"
    /\ Cardinality(Running) < MaxConn
    /\ pc' = [pc EXCEPT ![nSess] = "read"]
    /\ lpc' = "accept"
    /\ UNCHANGED <<nSess, srvVars, tpl, bcVars, nColl, idVars,
                   ExtranonceSub, stratum, login, jobVars, lockVars, reqVars>>

\* ---- handleTCPClient: the outcomes of connbuff.ReadLine ----
\* bufio.Reader.ReadLine reports a line that fills the buffer as isPrefix with a
\* nil error.
ReadLineTooLong == [isPrefix |-> TRUE, err |-> "nil"]

\* What ReadLine delivered when it was no request: kept in cur until the
\* goroutine ends.
ReadEvent(what) == [NoReq EXCEPT !.method = what]
TooLong == "<line too long>"

\* What the goroutine of lines 79-86 sees as the result of handleTCPClient.
Returned(err) == IF err = "nil" THEN "ret_nil" ELSE "ret_err"

\* isPrefix: BanClient, return err.
ReadOversize(s) ==
    /\ pc[s] = "read" /\ ~closed[s]
    /\ ReadLineTooLong.isPrefix
    /\ banned' = banned \cup {ip[s]}
    /\ cur' = [cur EXCEPT ![s] = ReadEvent(TooLong)]
    /\ pc' = [pc EXCEPT ![s] = Returned(ReadLineTooLong.err)]
    /\ UNCHANGED <<lisVars, Extranonces, sessions, tpl, bcVars, nColl,
                   idVars, ExtranonceSub, stratum, login, jobVars, lockVars, todo, out, fwd>>

\* err == io.EOF: removeSession, break, return nil.
ReadEOF(s) ==
    /\ pc[s] = "read"
    /\ cur' = [cur EXCEPT ![s] = ReadEvent("<EOF>")]
    /\ pc' = [pc EXCEPT ![s] = "eof_rm"]
    /\ UNCHANGED <<lisVars, srvVars, tpl, bcVars, nColl, idVars,
                   ExtranonceSub, stratum, login, jobVars, lockVars, todo, out, fwd>>

RemoveEOF(s) ==
    /\ pc[s] = "eof_rm"
    /\ removeSession(s)
    /\ pc' = [pc EXCEPT ![s] = Returned("nil")]
    /\ UNCHANGED <<lisVars, banned, tpl, bcVars, nColl, idVars,
                   ExtranonceSub, stratum, login, jobVars, lockVars, reqVars>>

\* Any other read error (deadline, reset): return err.
ReadErr(s) ==
    /\ pc[s] = "read"
    /\ cur' = [cur EXCEPT ![s] = ReadEvent("<read error>")]
    /\ pc' = [pc EXCEPT ![s] = Returned("err")]
    /\ UNCHANGED <<lisVars, srvVars, tpl, bcVars, nColl, idVars,
                   ExtranonceSub, stratum, login, jobVars, lockVars, todo, out, fwd>>

\* json.Unmarshal of the line fails: ApplyMalformedPolicy (which may ban), return err.
ReadMalformed(s, ban) ==
    /\ pc[s] = "read" /\ ~closed[s]
    /\ banned' = IF ban THEN banned \cup {ip[s]} ELSE banned
    /\ cur' = [cur EXCEPT ![s] = ReadEvent("<malformed JSON>")]
    /\ pc' = [pc EXCEPT ![s] = Returned("err")]
    /\ UNCHANGED <<lisVars, Extranonces, sessions, tpl, bcVars, nColl,
                   idVars, ExtranonceSub, stratum, login, jobVars, lockVars, todo, out, fwd>>

\* ---- the goroutine of ListenTCP after handleTCPClient has returned ----
\* err != nil: removeSession(cs) ...
RemoveErr(s) ==
    /\ pc[s] = "ret_err"
    /\ removeSession(s)
    /\ pc' = [pc EXCEPT ![s] = "closing"]
    /\ UNCHANGED <<lisVars, banned, tpl, bcVars, nColl, idVars,
                   ExtranonceSub, stratum, login, jobVars, lockVars, reqVars>>

\* ... conn.Close(), <-accept.
CloseErr(s) ==
    /\ pc[s] = "closing"
    /\ closed' = [closed EXCEPT ![s] = TRUE]
    /\ todo' = [todo EXCEPT ![s] = <<>>]
    /\ cur' = [cur EXCEPT ![s] = NoReq]
    /\ out' = [out EXCEPT ![s] = <<>>]
    /\ fwd' = [fwd EXCEPT ![s] = <<>>]
    /\ pc' = [pc EXCEPT ![s] = "done"]
    /\ UNCHANGED <<lisVars, srvVars, tpl, bcVars, nColl, ip, Extranonce,
                   ExtranonceSub, stratum, login, jobVars, lockVars>>

\* err == nil: only <-accept.
ExitNil(s) ==
    /\ pc[s] = "ret_nil"
    /\ todo' = [todo EXCEPT ![s] = <<>>]
    /\ cur' = [cur EXCEPT ![s] = NoReq]
    /\ out' = [out EXCEPT ![s] = <<>>]
    /\ fwd' = [fwd EXCEPT ![s] = <<>>]
    /\ pc' = [pc EXCEPT ![s] = "done"]
    /\ UNCHANGED <<lisVars, srvVars, tpl, bcVars, nColl, idVars,
                   ExtranonceSub, stratum, login, jobVars, lockVars>>

\* ---- strings of the requests ----
ES1 == "EthereumStratum/1.0.0"
GodMiner == "GodMiner/2.0.0"
Nonce18 == "0x0123456789abcdef"
Hash66 == "0x0123456789abcdef0123456789abcdef0123456789abcdef0123456789abcdef"

\* len(str) for the strings the requests of this model carry.
StrLen(str) ==
    CASE str = Nonce18 -> 18
      [] str = Hash66 -> 66
      [] str = "0x01" -> 4
      [] OTHER -> 1

\* strings.HasPrefix(str, "0x")
HasPrefix0x(str) == str \in {Nonce18, Hash66, "0x01", "0x1f", "0xzz", "0xabc", "0xabc.rig1"}

\* strconv.ParseInt(str[2:], 16, 64) succeeds
ParseHexOK(str) == str \in {Nonce18, "0x01", "0x1f", "0xabc"}

\* strings.Split(str, ".")
Split(str) == IF str = "0xabc.rig1" THEN <<"0xabc", "rig1">> ELSE <<str>>

\* ---- the write functions of Session ----
SendFns == {"sendTCPResult", "sendTCPError", "sendStratumResult", "sendStratumError", "sendTCPReq"}

\* A sendTCPReq that encodes without cs.Lock().
LocksSessionButReq(fn) == fn \in SendFns \ {"sendTCPReq"}

\* The functions that take cs.Lock() before cs.enc.Encode.
LocksSession(fn) == fn \in SendFns

\* A sendTCPError that returns the error of Encode only.
ReturnsErrorOfEncode(fn, written) == ~written

\* sendTCPError returns errors.New(reply.Message) after a successful write; the
\* others return the error of Encode.
ReturnsError(fn, written) == ~written \/ fn = "sendTCPError"

Send(fn, frame) == [op |-> "send", fn |-> fn, frame |-> frame]
sendTCPResult(id, result) == Send("sendTCPResult", Frame("result2", id, result))
sendTCPErrorQuiet(id, msg) == Send("sendTCPResult", Frame("error2", id, msg))
sendTCPError(id, msg) == Send("sendTCPError", Frame("error2", id, msg))
sendStratumResult(id, result) == Send("sendStratumResult", Frame("sresult", id, result))
sendStratumError(id, msg) == Send("sendStratumError", Frame("serror", id, msg))
sendTCPReq(method, params) ==
    Send("sendTCPReq", Frame("req", 0, [method |-> method, params |-> params]))

\* return <a non-nil error> without writing anything
ReturnErr == [op |-> "ret"]
SetSub == [op |-> "setSub"]
SendJobOp(id, newjob) == [op |-> "sendJob", id |-> id, newjob |-> newjob]
\* the share is for the current job (the else branch of line 348)
ReadCurOp(id, nonce) == [op |-> "readCur", id |-> id, nonce |-> nonce]
\* the call of handleTCPSubmitRPC; fn is the dialect of the reply
SubmitOp(id, params, dialect) == [op |-> "submit", id |-> id, params |-> params, dialect |-> dialect]

\* ---- collaborators outside stratum.go ----
\* handleLoginRPC: rejects empty params, otherwise the upstream decides; on
\* success it stores cs.login and calls registerSession.
handleLoginRPC(params, ok) == Len(params) >= 1 /\ ok

\* handleGetWorkRPC: "Work not ready" without a template or when the upstream
\* is sick, else [header, seed, diff, height] of the current template.
handleGetWorkRPC(ok) == tpl # 0 /\ ok

\* handleUnknownRPC: the error reply of an unknown method.
handleUnknownRPC == "Method not found"

\* ---- dialect ----
setStratumMode(str) == IF str = ES1 THEN NiceHash ELSE EthProxy

\* The job IDs session s holds: of its current job and of its stale cache.
InUse(s) == ({JobDetails[s].JobID} \cup Range(staleJobIDs[s]) \cup DOMAIN staleJobs[s]) \ {0}

\* The least job ID the session does not hold: job IDs are only compared with
\* each other, so it stands for every string the session does not hold.
FreshID(s) == CHOOSE j \in 1..(Cardinality(InUse(s)) + 1) : j \notin InUse(s)

\* randomHex(8): a value the session does not hold or (rarely) one it holds.
randomHex8(s) == {FreshID(s)} \cup (IF nColl < MaxCollide THEN InUse(s) ELSE {})

\* getNotificationResponse, called after the dialect was set to NiceHash.
getNotificationResponse(s, j) ==
    IF tpl # 0
    THEN [flat |-> TRUE, job |-> j, seed |-> Template(tpl).Seed,
          header |-> Template(tpl).Header, extranonce |-> 0]
    ELSE [flat |-> FALSE, job |-> 0, seed |-> <<>>, header |-> <<>>,
          extranonce |-> Extranonce[s]]

\* ---- handleTCPMessage ----
\* The outcome of the handler up to its first write or upstream call: the new
\* dialect and subscription flag, whether the session was registered, and
\* the rest of the handler.
Outcome(st, sub, reg, ops) ==
    [stratum |-> st, sub |-> sub, reg |-> reg, todo |-> ops]

Keep(s, ops) == Outcome(stratum[s], ExtranonceSub[s], FALSE, ops)

\* An eth_login that sets the dialect, as eth_submitLogin does.
eth_loginSetsMode(s, req, ok) ==
    IF ~req.pok THEN Keep(s, <<ReturnErr>>)
    ELSE IF ~handleLoginRPC(req.params, ok)
    THEN Keep(s, <<sendTCPError(req.id, "Invalid login")>>)
    ELSE Outcome(setStratumMode("EthProxy"), ExtranonceSub[s], TRUE,
                 <<sendTCPResult(req.id, "true")>>)

\* lines 180-193
eth_login(s, req, ok) ==
    IF ~req.pok THEN Keep(s, <<ReturnErr>>)
    ELSE IF ~handleLoginRPC(req.params, ok)
    THEN Keep(s, <<sendTCPError(req.id, "Invalid login")>>)
    ELSE Outcome(stratum[s], ExtranonceSub[s], TRUE, <<sendTCPResult(req.id, "true")>>)

\* lines 195-208: "return err" with a nil err when only the length is wrong
eth_submitLogin(s, req, ok) ==
    IF ~req.pok THEN Keep(s, <<ReturnErr>>)
    ELSE IF Len(req.params) < 1 THEN Keep(s, <<>>)
    ELSE IF ~handleLoginRPC(req.params, ok)
    THEN Keep(s, <<sendTCPError(req.id, "Invalid login")>>)
    ELSE Outcome(setStratumMode("EthProxy"), ExtranonceSub[s], TRUE,
                 <<sendTCPResult(req.id, "true")>>)

\* lines 210-232
mining_subscribe(s, req, j) ==
    IF ~req.pok THEN Keep(s, <<ReturnErr>>)
    ELSE IF Len(req.params) < 2 THEN Keep(s, <<>>)
    ELSE IF req.params[2] # ES1 /\ req.params[1] # GodMiner
    THEN Keep(s, <<sendStratumError(req.id, "unsupported stratum version")>>)
    ELSE Outcome(setStratumMode(ES1), TRUE, FALSE,
                 <<sendStratumResult(req.id, getNotificationResponse(s, j))>>)

\* lines 234-243: no dialect yet
unknownUnset(s, req) == Keep(s, <<sendTCPError(req.id, handleUnknownRPC)>>)

\* lines 248-276
mining_authorize(s, req, ok) ==
    IF ~req.pok \/ Len(req.params) < 1 THEN Keep(s, <<ReturnErr>>)
    ELSE IF ~handleLoginRPC(<<Split(req.params[1])[1]>>, ok)
    THEN Keep(s, <<sendStratumError(req.id, "Invalid login")>>)
    ELSE Outcome(stratum[s], ExtranonceSub[s], TRUE,
                 << sendStratumResult(req.id, "true"),
                    sendTCPReq("mining.set_difficulty", <<"diff">>),
                    SendJobOp(req.id, TRUE) >>)

\* lines 278-301
mining_extranonce_subscribe(s, req) ==
    IF ~req.pok THEN Keep(s, <<ReturnErr>>)
    ELSE IF Len(req.params) = 0
    THEN Keep(s, << sendStratumResult(req.id, "true"), SetSub,
                    sendTCPReq("mining.set_extranonce", <<Extranonce[s]>>) >>)
    ELSE Keep(s, <<sendStratumError(req.id, "20 Not supported.")>>)

\* A mining.submit that takes seed and header of the current job for a cached
\* job too.
mining_submitStaleAsCurrent(s, req) ==
    IF ~req.pok THEN Keep(s, <<ReturnErr>>)
    ELSE IF Len(req.params) < 3 THEN Keep(s, <<>>)
    ELSE LET extranonce == IF ExtranonceSub[s] THEN <<Extranonce[s]>> ELSE <<>>
             nonce == extranonce \o <<req.params[3]>>
             job == req.params[2]
         IN  IF JobDetails[s].JobID # job
             THEN IF job \in DOMAIN staleJobs[s]
                  THEN Keep(s, <<SubmitOp(req.id, <<nonce, JobDetails[s].SeedHash,
                                                    JobDetails[s].HeaderHash>>, NiceHash)>>)
                  ELSE Keep(s, << sendStratumError(req.id, "21 Stale share."),
                                  SendJobOp(req.id, FALSE) >>)
             ELSE Keep(s, <<ReadCurOp(req.id, nonce)>>)

\* lines 302-347: params[1] is the job ID, params[2] the miner nonce
mining_submit(s, req) ==
    IF ~req.pok THEN Keep(s, <<ReturnErr>>)
    ELSE IF Len(req.params) < 3 THEN Keep(s, <<>>)
    ELSE LET extranonce == IF ExtranonceSub[s] THEN <<Extranonce[s]>> ELSE <<>>
             nonce == extranonce \o <<req.params[3]>>
             job == req.params[2]
         IN  IF JobDetails[s].JobID # job
             THEN IF job \in DOMAIN staleJobs[s]
                  THEN Keep(s, <<SubmitOp(req.id, <<nonce, staleJobs[s][job].SeedHash,
                                                    staleJobs[s][job].HeaderHash>>, NiceHash)>>)
                  ELSE Keep(s, << sendStratumError(req.id, "21 Stale share."),
                                  SendJobOp(req.id, FALSE) >>)
             ELSE Keep(s, <<ReadCurOp(req.id, nonce)>>)

\* lines 373-378
unknownNiceHash(s, req) == Keep(s, <<sendStratumError(req.id, handleUnknownRPC)>>)

\* lines 383-388
eth_getWork(s, req, ok) ==
    IF ~handleGetWorkRPC(ok)
    THEN Keep(s, <<sendTCPError(req.id, "Work not ready")>>)
    ELSE Keep(s, <<sendTCPResult(req.id, <<Template(tpl).Header, Template(tpl).Seed>>)>>)

\* lines 390-408: "return err" with a nil err when only a length is wrong
eth_submitWork(s, req) ==
    IF ~req.pok THEN Keep(s, <<ReturnErr>>)
    ELSE IF \/ Len(req.params) < 3
            \/ StrLen(req.params[1]) # 18
            \/ StrLen(req.params[2]) # 66
            \/ StrLen(req.params[3]) # 66
    THEN Keep(s, <<>>)
    ELSE Keep(s, <<SubmitOp(req.id, req.params, EthProxy)>>)

\* lines 410-432
eth_submitHashrate(s, req) ==
    IF ~req.pok THEN Keep(s, <<ReturnErr>>)
    ELSE IF Len(req.params) < 2 THEN Keep(s, <<>>)
    ELSE IF ~HasPrefix0x(req.params[1]) \/ ~ParseHexOK(req.params[1])
    THEN Keep(s, <<ReturnErr>>)
    ELSE Keep(s, <<sendTCPResult(req.id, "true")>>)

\* lines 433-436
unknownEthProxy(s, req) == Keep(s, <<sendTCPError(req.id, handleUnknownRPC)>>)

\* The switch of lines 178-244, the NiceHash block of 246-380 and the switch of
\* 382-436.
handleTCPMessage(s, req, ok, j) ==
    CASE req.method = "eth_login" -> eth_login(s, req, ok)
      [] req.method = "eth_submitLogin" -> eth_submitLogin(s, req, ok)
      [] req.method = "mining.subscribe" -> mining_subscribe(s, req, j)
      [] OTHER ->
          IF stratum[s] \notin {EthProxy, NiceHash} THEN unknownUnset(s, req)
          ELSE IF stratum[s] = NiceHash
          THEN CASE req.method = "mining.authorize" -> mining_authorize(s, req, ok)
                 [] req.method = "mining.extranonce.subscribe" ->
                        mining_extranonce_subscribe(s, req)
                 [] req.method = "mining.submit" -> mining_submit(s, req)
                 [] OTHER -> unknownNiceHash(s, req)
          ELSE CASE req.method = "eth_getWork" -> eth_getWork(s, req, ok)
                 [] req.method = "eth_submitWork" -> eth_submitWork(s, req)
                 [] req.method = "eth_submitHashrate" -> eth_submitHashrate(s, req)
                 [] OTHER -> unknownEthProxy(s, req)

\* ---- jobs ----
\* A job of template t with ID j; the 0x prefix is stripped from both hashes
\* when the seed carries it (lines 496-499 and 603-606).
NewJob(t, j) ==
    LET raw == [JobID |-> j, SeedHash |-> t.Seed, HeaderHash |-> t.Header]
    IN  IF raw.SeedHash[1] = 0
        THEN [raw EXCEPT !.SeedHash = Tail(@), !.HeaderHash = Tail(@)]
        ELSE raw

\* j is the result of randomHex(8) for a job of session s.
Draw(s, j) ==
    /\ j \in randomHex8(s)
    /\ nColl' = IF j \in InUse(s) THEN nColl + 1 ELSE nColl

NotifyFrame(jd, clean) ==
    Frame("req", 0, [method |-> "mining.notify",
                     params |-> <<jd.JobID, jd.SeedHash, jd.HeaderHash, clean>>])

\* A cacheStales that evicts as soon as the list holds max entries.
cacheStalesAtMax(ids, map, jd, max, n) ==
    LET l == Len(ids)
        save == IF l >= max THEN SubSeq(ids, l - n + 1, l) ELSE ids
        del == IF l >= max THEN SubSeq(ids, 1, l - n) ELSE <<>>
        kept == MapDel(map, Range(del))
    IN  [ids |-> Append(save, jd.JobID),
         map |-> MapSet(kept, jd.JobID,
                        [SeedHash |-> jd.SeedHash, HeaderHash |-> jd.HeaderHash])]

\* cacheStales(max, n) on the cache (ids, map) with jd the current job.
cacheStales(ids, map, jd, max, n) ==
    LET l == Len(ids)
        save == IF l > max THEN SubSeq(ids, l - n + 1, l) ELSE ids
        del == IF l > max THEN SubSeq(ids, 1, l - n) ELSE <<>>
        kept == MapDel(map, Range(del))
    IN  [ids |-> Append(save, jd.JobID),
         map |-> MapSet(kept, jd.JobID,
                        [SeedHash |-> jd.SeedHash, HeaderHash |-> jd.HeaderHash])]

\* ---- the reader task inside handleTCPMessage ----
\* A parsed request arrives: setDeadline, handleTCPMessage up to its first
\* write or upstream call.
Dispatch(s, req, ok, j) ==
    LET h == handleTCPMessage(s, req, ok, j) IN
    /\ pc[s] = "read" /\ ~closed[s]
    /\ h.reg => MuWriteFree
    /\ j \in randomHex8(s)
    /\ stratum' = [stratum EXCEPT ![s] = h.stratum]
    /\ ExtranonceSub' = [ExtranonceSub EXCEPT ![s] = h.sub]
    /\ IF h.reg
       THEN /\ registerSession(s)
            /\ login' = [login EXCEPT ![s] = Split(req.params[1])[1]]
       ELSE UNCHANGED <<sessions, login>>
    /\ cur' = [cur EXCEPT ![s] = req]
    /\ out' = [out EXCEPT ![s] = <<>>]
    /\ fwd' = [fwd EXCEPT ![s] = <<>>]
    /\ todo' = [todo EXCEPT ![s] = h.todo]
    /\ pc' = [pc EXCEPT ![s] = "run"]
    /\ UNCHANGED <<lisVars, Extranonces, banned, tpl, bcVars, nColl, idVars, jobVars, lockVars>>

Op(s) == Head(todo[s])
AtOp(s, op) == pc[s] = "run" /\ todo[s] # <<>> /\ Op(s).op = op

\* return errors.New(...) or return err with a non-nil err
RunReturnErr(s) ==
    /\ AtOp(s, "ret")
    /\ pc' = [pc EXCEPT ![s] = Returned("err")]
    /\ UNCHANGED <<lisVars, srvVars, tpl, bcVars, nColl, idVars,
                   ExtranonceSub, stratum, login, jobVars, lockVars, reqVars>>

\* cs.ExtranonceSub = true (line 288)
RunSetSub(s) ==
    /\ AtOp(s, "setSub")
    /\ ExtranonceSub' = [ExtranonceSub EXCEPT ![s] = TRUE]
    /\ todo' = [todo EXCEPT ![s] = Tail(@)]
    /\ UNCHANGED <<lisVars, srvVars, tpl, bcVars, nColl, pc, idVars,
                   stratum, login, jobVars, lockVars, cur, out, fwd>>

\* sendJob up to its write: with newjob the job is replaced, without the
\* session lock; the notify frame is built from cs.JobDetails. Without newjob
\* and without a block template, t.Height dereferences nil: the goroutine
\* panics.
sendJob(s, ok, j) ==
    /\ AtOp(s, "sendJob")
    /\ IF Op(s).newjob /\ ~handleGetWorkRPC(ok)
       THEN /\ todo' = [todo EXCEPT ![s] = <<sendStratumError(Op(s).id, "Work not ready")>>]
            /\ j = FreshID(s)
            /\ UNCHANGED <<JobDetails, nColl, pc>>
       ELSE IF Op(s).newjob
       THEN /\ Draw(s, j)
            /\ JobDetails' = [JobDetails EXCEPT ![s] = NewJob(Template(tpl), j)]
            /\ todo' = [todo EXCEPT ![s] =
                  <<Send("sendTCPReq", NotifyFrame(NewJob(Template(tpl), j), TRUE))>>]
            /\ UNCHANGED pc
       ELSE IF tpl = 0
       THEN /\ j = FreshID(s)
            /\ pc' = [pc EXCEPT ![s] = "panic"]
            /\ UNCHANGED <<JobDetails, nColl, todo>>
       ELSE /\ j = FreshID(s)
            /\ todo' = [todo EXCEPT ![s] =
                  <<Send("sendTCPReq", NotifyFrame(JobDetails[s], TRUE))>>]
            /\ UNCHANGED <<JobDetails, nColl, pc>>
    /\ UNCHANGED <<lisVars, srvVars, tpl, bcVars, idVars, ExtranonceSub,
                   stratum, login, staleJobs, staleJobIDs, lockVars, cur, out, fwd>>

\* The params with header and seed in each other's place.
CurParamsSwapped(s, nonce) == <<nonce, JobDetails[s].HeaderHash, JobDetails[s].SeedHash>>

\* The params of a share for the current job (lines 349-353).
CurParams(s, nonce) == <<nonce, JobDetails[s].SeedHash, JobDetails[s].HeaderHash>>

\* The reply to a share: ok is the answer of handleTCPSubmitRPC
\* (lines 357-371 for NiceHash, 403-408 for EthProxy).
ShareReply(id, dialect, ok) ==
    IF dialect = NiceHash
    THEN IF ok THEN sendStratumResult(id, "true")
               ELSE sendStratumError(id, "share rejected")
    ELSE IF ok THEN sendTCPResult(id, "true")
               ELSE sendTCPError(id, "share rejected")

\* The share is for the current job: its seed and header are read from
\* cs.JobDetails and handed to handleTCPSubmitRPC.
RunReadCur(s, ok) ==
    /\ AtOp(s, "readCur")
    /\ fwd' = [fwd EXCEPT ![s] = CurParams(s, Op(s).nonce)]
    /\ todo' = [todo EXCEPT ![s] = <<ShareReply(Op(s).id, NiceHash, ok)>>]
    /\ UNCHANGED <<lisVars, srvVars, tpl, bcVars, nColl, pc, idVars,
                   ExtranonceSub, stratum, login, jobVars, lockVars, cur, out>>

\* handleTCPSubmitRPC(cs, id, params) with the params of a cached job
\* (line 356) or of eth_submitWork (line 401).
RunSubmit(s, ok) ==
    /\ AtOp(s, "submit")
    /\ fwd' = [fwd EXCEPT ![s] = Op(s).params]
    /\ todo' = [todo EXCEPT ![s] = <<ShareReply(Op(s).id, Op(s).dialect, ok)>>]
    /\ UNCHANGED <<lisVars, srvVars, tpl, bcVars, nColl, pc, idVars,
                   ExtranonceSub, stratum, login, jobVars, lockVars, cur, out>>

\* cs.Lock() and the start of cs.enc.Encode in one of the send functions
SendLock(s) ==
    /\ AtOp(s, "send")
    /\ IF LocksSession(Op(s).fn)
       THEN wlock[s] = {} /\ wlock' = [wlock EXCEPT ![s] = {Reader}]
       ELSE UNCHANGED wlock
    /\ enc' = [enc EXCEPT ![s] = @ \cup {Reader}]
    /\ pc' = [pc EXCEPT ![s] = "enc"]
    /\ UNCHANGED <<lisVars, srvVars, tpl, bcVars, nColl, idVars,
                   ExtranonceSub, stratum, login, jobVars, reqVars>>

\* Encode ends (written: whether the frame went out), cs.Unlock(), and the
\* caller acts on the returned error.
SendDone(s, written) ==
    /\ pc[s] = "enc"
    /\ written => ~closed[s]
    /\ wlock' = [wlock EXCEPT ![s] = @ \ {Reader}]
    /\ enc' = [enc EXCEPT ![s] = @ \ {Reader}]
    /\ out' = [out EXCEPT ![s] = IF written THEN Append(@, Op(s).frame) ELSE @]
    /\ IF ReturnsError(Op(s).fn, written)
       THEN pc' = [pc EXCEPT ![s] = Returned("err")] /\ UNCHANGED todo
       ELSE pc' = [pc EXCEPT ![s] = "run"] /\ todo' = [todo EXCEPT ![s] = Tail(@)]
    /\ UNCHANGED <<lisVars, srvVars, tpl, bcVars, nColl, idVars,
                   ExtranonceSub, stratum, login, jobVars, cur, fwd>>

\* handleTCPMessage returned nil: back to ReadLine.
Loop(s) ==
    /\ pc[s] = "run" /\ todo[s] = <<>>
    /\ pc' = [pc EXCEPT ![s] = "read"]
    /\ cur' = [cur EXCEPT ![s] = NoReq]
    /\ out' = [out EXCEPT ![s] = <<>>]
    /\ fwd' = [fwd EXCEPT ![s] = <<>>]
    /\ UNCHANGED <<lisVars, srvVars, tpl, bcVars, nColl, idVars,
                   ExtranonceSub, stratum, login, jobVars, lockVars, todo>>

\* ---- the broadcaster ----
NoFrame == Frame("", 0, <<>>)
Idle == [st |-> "none", frame |-> NoFrame]

\* A broadcast is in flight while one of its workers is; b names it.
InFlight(b) == \E s \in Sess : wk[b][s].st # "none"
FreeSlot == IF \A b \in Bcasts : InFlight(b) THEN 0
            ELSE CHOOSE b \in Bcasts : ~InFlight(b) /\ \A c \in 1..(b - 1) : InFlight(c)

\* The upstream publishes the next block template.
NewTemplate ==
    /\ tpl < MaxTpl
    /\ tpl' = tpl + 1
    /\ UNCHANGED <<lisVars, srvVars, bcVars, nColl, pc, idVars,
                   ExtranonceSub, stratum, login, jobVars, lockVars, reqVars>>

\* A broadcast that starts a worker for the first session of the table only.
broadcastFirstOnly(b) ==
    /\ nB < MaxPush
    /\ b = FreeSlot
    /\ tpl # 0
    /\ sessions # {}
    /\ nB' = nB + 1
    /\ bTpl' = [bTpl EXCEPT ![b] = tpl]
    /\ wk' = [wk EXCEPT ![b] =
                [s \in Sess |-> IF s \in sessions /\ \A r \in sessions : s <= r
                                THEN [st |-> "spawned", frame |-> NoFrame] ELSE Idle]]
    /\ UNCHANGED <<lisVars, srvVars, tpl, nColl, pc, idVars,
                   ExtranonceSub, stratum, login, jobVars, lockVars, reqVars>>

\* broadcastNewJobs with a template and a healthy upstream: under the read
\* lock, one worker per session of the table.
broadcastNewJobs(b) ==
    /\ nB < MaxPush
    /\ b = FreeSlot
    /\ tpl # 0
    /\ sessions # {}
    /\ nB' = nB + 1
    /\ bTpl' = [bTpl EXCEPT ![b] = tpl]
    /\ wk' = [wk EXCEPT ![b] =
                [s \in Sess |-> IF s \in sessions
                                THEN [st |-> "spawned", frame |-> NoFrame] ELSE Idle]]
    /\ UNCHANGED <<lisVars, srvVars, tpl, nColl, pc, idVars,
                   ExtranonceSub, stratum, login, jobVars, lockVars, reqVars>>

\* pushNewJob from cs.Lock() to the start of Encode.
pushNewJob(b, s, j) ==
    /\ wk[b][s].st = "spawned"
    /\ wlock[s] = {}
    /\ wlock' = [wlock EXCEPT ![s] = {b}]
    /\ enc' = [enc EXCEPT ![s] = @ \cup {b}]
    /\ IF stratum[s] = NiceHash
       THEN LET c == cacheStales(staleJobIDs[s], staleJobs[s], JobDetails[s], MaxStale, KeepStale)
                jd == NewJob(Template(bTpl[b]), j)
            IN  /\ Draw(s, j)
                /\ staleJobIDs' = [staleJobIDs EXCEPT ![s] = c.ids]
                /\ staleJobs' = [staleJobs EXCEPT ![s] = c.map]
                /\ JobDetails' = [JobDetails EXCEPT ![s] = jd]
                /\ wk' = [wk EXCEPT ![b][s] = [st |-> "pushing", frame |-> NotifyFrame(jd, FALSE)]]
       ELSE /\ j = FreshID(s)
            /\ wk' = [wk EXCEPT ![b][s] =
                  [st |-> "pushing",
                   frame |-> Frame("push0", 0, <<Template(bTpl[b]).Header, Template(bTpl[b]).Seed>>)]]
            /\ UNCHANGED <<jobVars, nColl>>
    /\ UNCHANGED <<lisVars, srvVars, tpl, nB, bTpl, pc, idVars, ExtranonceSub,
                   stratum, login, reqVars>>

\* Encode ends, cs.Unlock(), <-bcast; on success setDeadline ends the worker.
pushDone(b, s, written) ==
    /\ wk[b][s].st = "pushing"
    /\ written => ~closed[s]
    /\ wlock' = [wlock EXCEPT ![s] = @ \ {b}]
    /\ enc' = [enc EXCEPT ![s] = @ \ {b}]
    /\ wk' = [wk EXCEPT ![b][s] = [st |-> IF written THEN "none" ELSE "failed", frame |-> NoFrame]]
    /\ UNCHANGED <<lisVars, srvVars, tpl, nB, bTpl, nColl, pc, idVars,
                   ExtranonceSub, stratum, login, jobVars, reqVars>>

\* err != nil: s.removeSession(cs)
workerRemove(b, s) ==
    /\ wk[b][s].st = "failed"
    /\ removeSession(s)
    /\ wk' = [wk EXCEPT ![b][s] = Idle]
    /\ UNCHANGED <<lisVars, banned, tpl, nB, bTpl, nColl, pc, idVars,
                   ExtranonceSub, stratum, login, jobVars, lockVars, reqVars>>

\* ---- the requests a miner sends ----
ReqIds == {1}
Req(m, i, p) == [method |-> m, id |-> i, pok |-> TRUE, params |-> p]
\* params that are no JSON array of strings
BadParams(m, i) == [method |-> m, id |-> i, pok |-> FALSE, params |-> <<>>]

WithParams(ms, ps) ==
    {Req(m, i, p) : m \in ms, i \in ReqIds, p \in ps} \cup
    {BadParams(m, i) : m \in ms, i \in ReqIds}

ReqsLogin == WithParams({"eth_login", "eth_submitLogin"}, {<<>>, <<"0xabc", "x">>})
ReqsSubscribe ==
    WithParams({"mining.subscribe"},
               {<<>>, <<"miner/1">>, <<"miner/1", ES1>>, <<GodMiner, "x">>, <<"miner/1", "other">>})
ReqsAuthorize == WithParams({"mining.authorize"}, {<<>>, <<"0xabc.rig1", "x">>})
ReqsExtranonce == WithParams({"mining.extranonce.subscribe"}, {<<>>, <<"x">>})
ReqsSubmitShort == WithParams({"mining.submit"}, {<<>>, <<"0xabc.rig1", "j">>})
ReqsSubmit(s) ==
    {Req("mining.submit", i, <<"0xabc.rig1", j, 101>>) :
        i \in ReqIds, j \in InUse(s) \cup {0, FreshID(s)}}
ReqsGetWork == {Req(m, i, <<>>) : m \in {"eth_getWork", "eth_foo"}, i \in ReqIds}
ReqsSubmitWork ==
    WithParams({"eth_submitWork"},
               {<<Nonce18, Hash66, Hash66>>, <<Nonce18, Hash66>>, <<"0x01", Hash66, Hash66>>,
                <<Nonce18, Hash66, "0x01">>})
ReqsHashrate ==
    WithParams({"eth_submitHashrate"}, {<<>>, <<"0x1f", "id">>, <<"1f", "id">>, <<"0xzz", "id">>})

\* The requests of the session life cycle: logins and an unknown method.
ReqsLife == {Req("eth_submitLogin", i, <<"0xabc", "x">>) : i \in ReqIds}

\* A miner that logs in with eth_login and subscribes to EthereumStratum: its
\* jobs change by broadcasts only.
ReqsMiner ==
    {Req("mining.subscribe", i, <<"miner/1", ES1>>) : i \in ReqIds} \cup
    {Req("eth_login", i, <<"0xabc", "x">>) : i \in ReqIds}

RequestLife(s) == \E req \in ReqsLife, ok \in BOOLEAN : Dispatch(s, req, ok, FreshID(s))

\* Shares for the current job, for the oldest cached job and for a job the
\* session does not hold.
ReqsSubmitSome(s) ==
    {Req("mining.submit", i, <<"0xabc.rig1", j, 101>>) :
        i \in ReqIds,
        j \in {JobDetails[s].JobID, FreshID(s)} \cup
              (IF staleJobIDs[s] = <<>> THEN {} ELSE {Head(staleJobIDs[s])})}

RequestMiner(s) ==
    \/ \E req \in ReqsMiner : Dispatch(s, req, TRUE, FreshID(s))
    \/ \E req \in ReqsSubmitSome(s) : Dispatch(s, req, TRUE, FreshID(s))

Request(s) ==
    \/ \E req \in ReqsLogin, ok \in BOOLEAN : Dispatch(s, req, ok, FreshID(s))
    \/ \E req \in ReqsSubscribe, j \in randomHex8(s) : Dispatch(s, req, TRUE, j)
    \/ \E req \in ReqsAuthorize, ok \in BOOLEAN : Dispatch(s, req, ok, FreshID(s))
    \/ \E req \in ReqsExtranonce \cup ReqsSubmitShort : Dispatch(s, req, TRUE, FreshID(s))
    \/ \E req \in ReqsSubmit(s) : Dispatch(s, req, TRUE, FreshID(s))
    \/ \E req \in ReqsGetWork, ok \in BOOLEAN : Dispatch(s, req, ok, FreshID(s))
    \/ \E req \in ReqsSubmitWork \cup ReqsHashrate : Dispatch(s, req, TRUE, FreshID(s))

Listener ==
    \/ \E i \in IPs, limitOk \in BOOLEAN : AcceptReject(i, limitOk)
    \/ \E i \in IPs, e \in randomHex4 : nSess < LifeSessions /\ Accept(i, e)
    \/ \E i \in IPs : AcceptSpin(i)
    \/ UniqRetry
    \/ Spawn

\* The accept loop for the first connection only.
ListenerOne ==
    \/ \E i \in IPs, limitOk \in BOOLEAN : AcceptReject(i, limitOk)
    \/ \E i \in IPs, e \in randomHex4 : nSess = 0 /\ Accept(i, e)
    \/ Spawn

ReaderIO(s) ==
    \/ ReadOversize(s)
    \/ ReadEOF(s)
    \/ RemoveEOF(s)
    \/ ReadErr(s)
    \/ \E ban \in BOOLEAN : ReadMalformed(s, ban)
    \/ RemoveErr(s)
    \/ CloseErr(s)
    \/ ExitNil(s)

ReaderRun(s) ==
    \/ RunReturnErr(s)
    \/ RunSetSub(s)
    \/ \E ok \in BOOLEAN, j \in randomHex8(s) : sendJob(s, ok, j)
    \/ \E ok \in BOOLEAN : RunReadCur(s, ok)
    \/ \E ok \in BOOLEAN : RunSubmit(s, ok)
    \/ SendLock(s)
    \/ \E written \in BOOLEAN : SendDone(s, written)
    \/ Loop(s)

Workers ==
    \/ \E b \in Bcasts, s \in Sess : \E j \in randomHex8(s) : pushNewJob(b, s, j)
    \/ \E b \in Bcasts, s \in Sess, written \in BOOLEAN : pushDone(b, s, written)
    \/ \E b \in Bcasts, s \in Sess : workerRemove(b, s)

Broadcaster(maxB, maxT) ==
    \/ tpl < maxT /\ NewTemplate
    \/ \E b \in Bcasts : nB < maxB /\ broadcastNewJobs(b)
    \/ Workers

\* No goroutine has panicked: a panic that nothing recovers ends the process.
Up == \A s \in Sess : pc[s] # "panic"

\* The session life cycle: several sessions, logins, every way a reader ends,
\* broadcasts.
Next ==
    \/ Up /\ Listener
    \/ \E s \in Sess : Up /\ ReaderIO(s)
    \/ \E s \in Sess : Up /\ RequestLife(s)
    \/ \E s \in Sess : Up /\ SendLock(s)
    \/ \E s \in Sess, written \in BOOLEAN : Up /\ SendDone(s, written)
    \/ \E s \in Sess : Up /\ Loop(s)
    \/ Up /\ Broadcaster(MaxBcast, MaxTpl)

Spec == Init /\ [][Next]_vars

\* The protocol: one session, every request of the method table.
NextProto ==
    \/ Up /\ ListenerOne
    \/ \E s \in Sess : Up /\ ReaderIO(s)
    \/ \E s \in Sess : Up /\ Request(s)
    \/ \E s \in Sess : Up /\ ReaderRun(s)
    \/ Up /\ Broadcaster(MaxBcast, MaxTpl)

SpecProto == Init /\ [][NextProto]_vars

\* The stale-job cache: one NiceHash miner and a long run of broadcasts.
NextCache ==
    \/ \E i \in IPs, e \in randomHex4 : Up /\ nSess = 0 /\ Accept(i, e)
    \/ Up /\ Spawn
    \/ \E s \in Sess : Up /\ RequestMiner(s)
    \/ \E s \in Sess, ok \in BOOLEAN : Up /\ sendJob(s, ok, FreshID(s))
    \/ \E s \in Sess, ok \in BOOLEAN : Up /\ RunReadCur(s, ok)
    \/ \E s \in Sess, ok \in BOOLEAN : Up /\ RunSubmit(s, ok)
    \/ \E s \in Sess : Up /\ SendLock(s)
    \/ \E s \in Sess : Up /\ SendDone(s, TRUE)
    \/ \E s \in Sess : Up /\ Loop(s)
    \/ Up /\ Broadcaster(MaxPush, CacheTpl)

SpecCache == Init /\ [][NextCache]_vars

\* The fan-out of a broadcast: several miners that log in, some of them
\* NiceHash subscribers, and pushes that succeed or fail.
NextFan ==
    \/ \E i \in IPs, e \in randomHex4 : Up /\ nSess < LifeSessions /\ Accept(i, e)
    \/ Up /\ Spawn
    \/ \E s \in Sess, req \in ReqsMiner : Up /\ Dispatch(s, req, TRUE, FreshID(s))
    \/ \E s \in Sess : Up /\ SendLock(s)
    \/ \E s \in Sess : Up /\ SendDone(s, TRUE)
    \/ \E s \in Sess : Up /\ Loop(s)
    \/ Up /\ Broadcaster(MaxBcast, CacheTpl)

SpecFan == Init /\ [][NextFan]_vars

\* The accept loop with more connections than slots: sessions come and go
\* without sending a request.
NextAccept ==
    \/ \E i \in IPs, limitOk \in BOOLEAN : AcceptReject(i, limitOk)
    \/ \E i \in IPs, e \in randomHex4 : Accept(i, e)
    \/ \E i \in IPs : AcceptSpin(i)
    \/ UniqRetry
    \/ Spawn
    \/ \E s \in Sess : ReaderIO(s)

SpecAccept == Init /\ [][NextAccept]_vars

\* Scheduling: a goroutine that can take its next step takes it. A reader that
\* has left its loop runs on to removeSession, conn.Close and the release of
\* its slot; a worker whose push failed runs on to removeSession; the accept
\* loop hands a session to its goroutine once a slot is free. What waits for
\* the peer (a new connection, a line, the result of a write) and the arrival
\* of a template are not scheduled.
Fairness ==
    /\ \A s \in Sess : WF_vars(Up /\ RemoveEOF(s))
    /\ \A s \in Sess : WF_vars(Up /\ RemoveErr(s))
    /\ \A s \in Sess : WF_vars(Up /\ CloseErr(s))
    /\ \A s \in Sess : WF_vars(Up /\ ExitNil(s))
    /\ \A b \in Bcasts, s \in Sess : WF_vars(Up /\ workerRemove(b, s))
    /\ WF_vars(Up /\ Spawn)

\* The session life cycle under fair scheduling.
SpecLive == Init /\ [][Next]_vars /\ Fairness

\* ---- properties ----

\* The reader task of s is inside the loop of handleTCPClient.
ReaderLive(s) == pc[s] \in {"read", "run", "enc"}

\* C1: no two sessions whose reader task is running hold the same extranonce.
C1_ExtranonceUnique ==
    \A a, b \in Sess :
        (a # b /\ ReaderLive(a) /\ ReaderLive(b)) => Extranonce[a] # Extranonce[b]

\* The extranonce of s is still in the registry on behalf of s: no later
\* session was given the same value.
HoldsExtranonce(s) ==
    /\ Extranonce[s] \in Extranonces
    /\ ~\E o \in Sess : o # s /\ pc[o] # "none" /\ Extranonce[o] = Extranonce[s]

\* C2: once the goroutine of a session has ended, whatever ended its reader,
\* the session is out of the session table and its extranonce is out of the
\* registry; the same holds once a failed broadcast push has been handled.
C2_ResourceRelease ==
    \A s \in Sess : pc[s] = "done" => (s \notin sessions /\ ~HoldsExtranonce(s))

\* C3: a session whose reader met a line that fills the buffer without a
\* newline ends with its IP banned, its transport closed and the session
\* removed from the table and the registry.
C3_OversizeTerminates ==
    [][\A s \in Sess :
          (cur[s].method = TooLong /\ pc[s] # "done" /\ pc'[s] = "done")
              => /\ ip[s] \in banned'
                 /\ closed'[s]
                 /\ s \notin sessions'
                 /\ Extranonce[s] \notin Extranonces']_vars

\* C4: the stale-job cache of a session never holds more than MaxStale jobs.
C4_StaleBound ==
    \A s \in Sess :
        /\ Cardinality(DOMAIN staleJobs[s]) <= MaxStale
        /\ Len(staleJobIDs[s]) <= MaxStale

\* C5: once the dialect of a session is set it never changes.
C5_DialectMonotone ==
    [][\A s \in Sess : stratum[s] # Unset => stratum'[s] = stratum[s]]_vars

\* C6: at most one task encodes on the connection of a session at a time, and
\* it holds the lock of the session while it does.
C6_WriteAtomicity ==
    \A s \in Sess : Cardinality(enc[s]) <= 1 /\ enc[s] \subseteq wlock[s]

\* A broadcast worker waits for the lock of a session while the reader of the
\* session writes a reply.
C6_Witness ==
    \E s \in Sess, b \in Bcasts :
        pc[s] = "enc" /\ enc[s] = {Reader} /\ wk[b][s].st = "spawned"

\* cur[s] is a request, not the mark of what ended the reading.
IsRequest(s) ==
    cur[s].method \notin {"", TooLong, "<EOF>", "<read error>", "<malformed JSON>"}

\* The params of the request are a JSON array of strings that the checks of
\* the method refuse: too few of them, or of the wrong lengths.
InvalidParams(req) ==
    /\ req.pok
    /\ \/ req.method = "eth_submitWork" /\
            (Len(req.params) < 3 \/ StrLen(req.params[1]) # 18
                \/ StrLen(req.params[2]) # 66 \/ StrLen(req.params[3]) # 66)
       \/ req.method = "eth_submitLogin" /\ Len(req.params) < 1
       \/ req.method = "mining.subscribe" /\ Len(req.params) < 2
       \/ req.method = "mining.submit" /\ Len(req.params) < 3

\* The handler of the request of s has returned nil: the reader goes back to
\* ReadLine for the next request.
Continues(s) == pc[s] = "run" /\ todo[s] = <<>>

\* C7: a request whose params fail the checks of its method never lets the
\* reader go on to the next request.
C7_InvalidParamsTerminate ==
    \A s \in Sess : (IsRequest(s) /\ InvalidParams(cur[s])) => ~Continues(s)

\* No case of handleTCPMessage handles the method in the dialect.
NoHandler(dialect, method) ==
    /\ method \notin {"eth_login", "eth_submitLogin", "mining.subscribe"}
    /\ \/ dialect = Unset
       \/ dialect = NiceHash /\
            method \notin {"mining.authorize", "mining.extranonce.subscribe", "mining.submit"}
       \/ dialect = EthProxy /\
            method \notin {"eth_getWork", "eth_submitWork", "eth_submitHashrate"}

Unknown(s) == IsRequest(s) /\ NoHandler(stratum[s], cur[s].method)

\* C8 as stated: in every dialect, once the error reply to a request with an
\* unknown method is written, the reader goes on to the next request.
C8_UnknownContinues ==
    \A s \in Sess :
        (Unknown(s) /\ out[s] # <<>> /\ pc[s] \in {"run", "enc", "ret_err"}) => Continues(s)

\* C8: a request with an unknown method forwards nothing and is answered with
\* one "Method not found" error in the shape of the dialect; after the reply
\* the reader goes on to the next request in the NiceHash dialect, and returns
\* an error, which ends the session, in the Unset and EthProxy dialects.
C8_UnknownMethod ==
    \A s \in Sess :
        (Unknown(s) /\ pc[s] \in {"run", "enc", "ret_err"}) =>
            LET shape == IF stratum[s] = NiceHash THEN "serror" ELSE "error2"
                reply == Frame(shape, cur[s].id, "Method not found")
            IN  /\ fwd[s] = <<>>
                /\ IF out[s] = <<>>
                   THEN Len(todo[s]) = 1 /\ todo[s][1].op = "send" /\ todo[s][1].frame = reply
                   ELSE /\ out[s] = <<reply>>
                        /\ IF stratum[s] = NiceHash THEN Continues(s) ELSE pc[s] = "ret_err"

\* Both outcomes of C8 need a session of their own: the NiceHash session that
\* goes on after the reply.
C8_Witness ==
    \E s \in Sess : Unknown(s) /\ stratum[s] = NiceHash /\ out[s] # <<>> /\ Continues(s)

\* The share of the request of s was forwarded and the reply written for it
\* is the rejection.
Rejected(s) ==
    /\ IsRequest(s) /\ pc[s] \in {"run", "enc", "ret_err"}
    /\ fwd[s] # <<>>
    /\ out[s] # <<>> /\ out[s][Len(out[s])].body = "share rejected"

\* C9 as stated: after the reply to a rejected share the reader goes on to the
\* next request, in both dialects.
C9_RejectedContinues ==
    \A s \in Sess : Rejected(s) => Continues(s)

\* C9: a rejected share is answered with one error in the shape of the
\* dialect; after it the reader goes on to the next request for mining.submit
\* (NiceHash) and returns an error, which ends the session, for eth_submitWork
\* (EthProxy).
C9_UpstreamError ==
    \A s \in Sess :
        Rejected(s) =>
            IF cur[s].method = "mining.submit"
            THEN /\ stratum[s] = NiceHash
                 /\ out[s] = <<Frame("serror", cur[s].id, "share rejected")>>
                 /\ Continues(s)
            ELSE /\ cur[s].method = "eth_submitWork" /\ stratum[s] = EthProxy
                 /\ out[s] = <<Frame("error2", cur[s].id, "share rejected")>>
                 /\ pc[s] = "ret_err"

C9_Witness ==
    \E s \in Sess : Rejected(s) /\ cur[s].method = "eth_submitWork" /\ pc[s] = "ret_err"

\* The nonce handed to the share sink for the request of s.
FullNonce(s) ==
    (IF ExtranonceSub[s] THEN <<Extranonce[s]>> ELSE <<>>) \o <<cur[s].params[3]>>

\* C10: a mining.submit of a NiceHash session whose job ID is the ID of the
\* current job takes the branch of the current job with the nonce N, and that
\* branch forwards [N, seed, header] of the current job, where N is the
\* extranonce followed by the nonce of the miner if the session subscribed to
\* extranonces and the nonce of the miner alone otherwise.
C10_CurrentJobShare ==
    [][\A s \in Sess :
          /\ (/\ pc[s] = "read" /\ pc'[s] = "run"
              /\ cur'[s].method = "mining.submit" /\ cur'[s].pok
              /\ stratum[s] = NiceHash
              /\ Len(cur'[s].params) >= 3
              /\ cur'[s].params[2] = JobDetails[s].JobID)
                 => todo'[s] = <<ReadCurOp(cur'[s].id,
                                   (IF ExtranonceSub[s] THEN <<Extranonce[s]>> ELSE <<>>)
                                       \o <<cur'[s].params[3]>>)>>
          /\ (AtOp(s, "readCur") /\ fwd'[s] # fwd[s])
                 => /\ Op(s).nonce = FullNonce(s)
                    /\ fwd'[s] = <<FullNonce(s), JobDetails[s].SeedHash,
                                   JobDetails[s].HeaderHash>>]_vars

\* A share for a job made from a template was forwarded with the extranonce
\* in front of the nonce of the miner.
C10_Witness ==
    \E s \in Sess :
        /\ cur[s].method = "mining.submit" /\ stratum[s] = NiceHash
        /\ fwd[s] # <<>>
        /\ fwd[s][1] = <<Extranonce[s], 101>>
        /\ cur[s].params[2] = JobDetails[s].JobID
        /\ fwd[s][2] = JobDetails[s].SeedHash /\ fwd[s][2] # <<>>
        /\ fwd[s][3] = JobDetails[s].HeaderHash

\* The reader of s takes a well-formed mining.submit of a NiceHash session in
\* this step.
SubmitArrives(s) ==
    /\ pc[s] = "read" /\ pc'[s] = "run"
    /\ cur'[s].method = "mining.submit" /\ cur'[s].pok
    /\ stratum[s] = NiceHash
    /\ Len(cur'[s].params) >= 3

\* The nonce handed to the share sink for the request that arrives.
ArrivingNonce(s) ==
    (IF ExtranonceSub[s] THEN <<Extranonce[s]>> ELSE <<>>) \o <<cur'[s].params[3]>>

StaleShareError(s) == Frame("serror", cur[s].id, "21 Stale share.")

\* C11: a mining.submit of a NiceHash session whose job ID is not the ID of
\* the current job but a key of the stale cache is forwarded with the nonce N
\* and the seed and header of the cache entry, and no stale-share error is
\* written for it.
C11_StaleHitShare ==
    [][\A s \in Sess :
          /\ (/\ SubmitArrives(s)
              /\ cur'[s].params[2] # JobDetails[s].JobID
              /\ cur'[s].params[2] \in DOMAIN staleJobs[s])
                 => todo'[s] = <<SubmitOp(cur'[s].id,
                                   <<ArrivingNonce(s),
                                     staleJobs[s][cur'[s].params[2]].SeedHash,
                                     staleJobs[s][cur'[s].params[2]].HeaderHash>>,
                                   NiceHash)>>
          /\ (AtOp(s, "submit") /\ cur[s].method = "mining.submit" /\ fwd'[s] # fwd[s])
                 => /\ fwd'[s] = Op(s).params
                    /\ StaleShareError(s) \notin Range(out[s])
                    /\ todo'[s] \in {<<sendStratumResult(cur[s].id, "true")>>,
                                    <<sendStratumError(cur[s].id, "share rejected")>>}]_vars

\* A share for a cached job of another template than the current job's was
\* forwarded with the seed and header of the cache entry.
C11_Witness ==
    \E s \in Sess :
        /\ cur[s].method = "mining.submit" /\ stratum[s] = NiceHash
        /\ fwd[s] # <<>>
        /\ cur[s].params[2] # JobDetails[s].JobID
        /\ cur[s].params[2] \in DOMAIN staleJobs[s]
        /\ fwd[s][2] = staleJobs[s][cur[s].params[2]].SeedHash
        /\ fwd[s][3] = staleJobs[s][cur[s].params[2]].HeaderHash
        /\ fwd[s][2] # JobDetails[s].SeedHash /\ fwd[s][2] # <<>>

\* A mining.notify written to the session.
IsNotify(frame) == frame.shape = "req" /\ frame.body.method = "mining.notify"

\* The first frame written for the mining.submit of s is the stale-share error.
StaleAnswered(s) ==
    cur[s].method = "mining.submit" /\ out[s] # <<>> /\ out[s][1] = StaleShareError(s)

\* What follows the stale-share error: the handler does not panic, nothing is
\* forwarded, the only other frame is a mining.notify, and after it the reader
\* goes on to the next request.
StaleShareSequence(s) ==
    /\ pc[s] # "panic"
    /\ fwd[s] = <<>>
    /\ Len(out[s]) <= 2
    /\ Len(out[s]) = 2 => (IsNotify(out[s][2]) /\ Continues(s))
    /\ (Len(out[s]) = 1 /\ pc[s] \in {"run", "enc"}) =>
           /\ Len(todo[s]) = 1
           /\ \/ todo[s][1] = SendJobOp(cur[s].id, FALSE)
              \/ todo[s][1].op = "send" /\ todo[s][1].fn = "sendTCPReq"
                   /\ IsNotify(todo[s][1].frame)

\* C12: a mining.submit of a NiceHash session whose job ID is neither the ID
\* of the current job nor a key of the stale cache is not forwarded; it is
\* answered with the error "21 Stale share." and then with a mining.notify, in
\* this order, and the reader goes on to the next request.
C12_StaleShare ==
    [][\A s \in Sess :
          /\ (/\ SubmitArrives(s)
              /\ cur'[s].params[2] # JobDetails[s].JobID
              /\ cur'[s].params[2] \notin DOMAIN staleJobs[s])
                 => /\ fwd'[s] = <<>>
                    /\ todo'[s] = << sendStratumError(cur'[s].id, "21 Stale share."),
                                     SendJobOp(cur'[s].id, FALSE) >>
          /\ StaleAnswered(s) => StaleShareSequence(s)
          /\ StaleAnswered(s)' => StaleShareSequence(s)']_vars

\* The worker of broadcast b for session s changes its state in this step.
WorkerMoves(b, s, from) == wk[b][s].st = from /\ wk'[b][s] # wk[b][s]

\* The frame a push of template k carries for a session outside NiceHash.
LegacyPush(k) == Frame("push0", 0, <<Template(k).Header, Template(k).Seed>>)

\* C13: a broadcast starts, with a template, one worker for every session of
\* the session table and for no other; each worker writes one frame, a
\* mining.notify of the new current job with clean_jobs = false for a NiceHash
\* session and the push with id 0 otherwise, and ends; a worker whose write
\* failed ends by taking the session out of the session table and its
\* extranonce out of the registry.
C13_BroadcastFanOut ==
    [][\A b \in Bcasts, s \in Sess :
          /\ WorkerMoves(b, s, "none") =>
                 /\ tpl # 0 /\ bTpl'[b] = tpl
                 /\ s \in sessions
                 /\ \A r \in Sess : wk'[b][r].st = (IF r \in sessions THEN "spawned" ELSE "none")
          /\ WorkerMoves(b, s, "spawned") =>
                 /\ wk'[b][s].st = "pushing"
                 /\ IF stratum[s] = NiceHash
                    THEN /\ wk'[b][s].frame = NotifyFrame(JobDetails'[s], FALSE)
                         /\ <<0>> \o JobDetails'[s].SeedHash = Template(bTpl[b]).Seed
                         /\ <<0>> \o JobDetails'[s].HeaderHash = Template(bTpl[b]).Header
                    ELSE wk'[b][s].frame = LegacyPush(bTpl[b])
          /\ WorkerMoves(b, s, "pushing") => wk'[b][s].st \in {"none", "failed"}
          /\ WorkerMoves(b, s, "failed") =>
                 /\ wk'[b][s].st = "none"
                 /\ s \notin sessions'
                 /\ Extranonce[s] \notin Extranonces']_vars

\* One broadcast writes to a NiceHash session and to a session of the other
\* kind at once.
C13_Witness ==
    \E b \in Bcasts, s, r \in Sess :
        /\ wk[b][s].st = "pushing" /\ IsNotify(wk[b][s].frame)
        /\ wk[b][r].st = "pushing" /\ wk[b][r].frame = LegacyPush(bTpl[b])

\* removeSession has run for s: s is out of the session table and its
\* extranonce out of the registry.
Destroyed(s) == pc[s] # "none" /\ s \notin sessions /\ Extranonce[s] \notin Extranonces

\* C14: a session that was removed from the session table and whose extranonce
\* was released has no reader inside its loop any more, and once its goroutine
\* has ended its transport is closed.
C14_DestructionComplete ==
    \A s \in Sess : Destroyed(s) => (~ReaderLive(s) /\ (pc[s] = "done" => closed[s]))

\* C15: when the current job of a NiceHash session is replaced, by a push or by
\* sendJob, the replaced job (a job made from a template, not the empty job of
\* a new session) is, right after the step, in the stale cache under its ID
\* with its seed and header.
C15_CachedBeforeOverwrite ==
    [][\A s \in Sess :
          (/\ stratum[s] = NiceHash
           /\ JobDetails[s].JobID # 0
           /\ JobDetails'[s] # JobDetails[s])
              => /\ JobDetails[s].JobID \in DOMAIN staleJobs'[s]
                 /\ staleJobs'[s][JobDetails[s].JobID] =
                        [SeedHash |-> JobDetails[s].SeedHash,
                         HeaderHash |-> JobDetails[s].HeaderHash]]_vars

\* No job ID occurs twice in q.
Distinct(q) == \A i, k \in 1..Len(q) : i # k => q[i] # q[k]

\* C16: a step that caches the current job of a session finds l job IDs in the
\* list of the cache. If l > 10, the list is afterwards its last 3 entries in
\* their order followed by the ID of the job that was current, and (job IDs
\* being distinct) the keys of the cache are exactly the entries of the list.
\* If l <= 10, the ID of the job that was current is appended to the list and
\* added to the keys, and nothing is evicted.
C16_EvictionRule ==
    [][\A s \in Sess :
          staleJobIDs'[s] # staleJobIDs[s] =>
              LET old == staleJobIDs[s]
                  l == Len(old)
                  id == JobDetails[s].JobID
              IN  IF l > 10
                  THEN /\ staleJobIDs'[s] = <<old[l - 2], old[l - 1], old[l], id>>
                       /\ Distinct(Append(old, id)) =>
                              DOMAIN staleJobs'[s] = {old[l - 2], old[l - 1], old[l], id}
                  ELSE /\ staleJobIDs'[s] = Append(old, id)
                       /\ DOMAIN staleJobs'[s] = DOMAIN staleJobs[s] \cup {id}
                       /\ \A k \in DOMAIN staleJobs[s] \ {id} :
                              staleJobs'[s][k] = staleJobs[s][k]]_vars

\* The cache of a session right after an eviction: four entries after more
\* than eleven pushes.
C16_Witness ==
    \E s \in Sess :
        /\ nB > MaxStale + 1
        /\ Len(staleJobIDs[s]) = KeepStale + 1
        /\ DOMAIN staleJobs[s] = Range(staleJobIDs[s])
        /\ Cardinality(DOMAIN staleJobs[s]) = KeepStale + 1

\* C17: a request that arrives while the dialect of the session is unset and
\* whose method is not eth_login, eth_submitLogin or mining.subscribe gets the
\* "Method not found" error of the unknown-method handler and nothing else:
\* the dialect stays unset, the session is not registered, no job is made and
\* no share forwarded. An eth_login leaves the dialect as it was.
C17_UnsetDispatch ==
    [][\A s \in Sess :
          (pc[s] = "read" /\ pc'[s] = "run") =>
              /\ (/\ stratum[s] = Unset
                  /\ cur'[s].method \notin {"eth_login", "eth_submitLogin", "mining.subscribe"})
                     => /\ todo'[s] = <<sendTCPError(cur'[s].id, "Method not found")>>
                        /\ stratum'[s] = Unset
                        /\ fwd'[s] = <<>>
                        /\ UNCHANGED <<sessions, JobDetails, ExtranonceSub, staleJobs>>
              /\ cur'[s].method = "eth_login" => stratum'[s] = stratum[s]]_vars

\* A session that logged in with eth_login is still without dialect; its
\* eth_getWork was answered by the unknown-method handler.
C17_Witness ==
    \E s \in Sess :
        /\ s \in sessions /\ stratum[s] = Unset
        /\ cur[s].method = "eth_getWork"
        /\ out[s] = <<Frame("error2", cur[s].id, "Method not found")>>

\* C18: the mining.notify that answers a mining.authorize is written third,
\* after the success reply and the mining.set_difficulty, and while it is
\* written it carries ID, seed and header of the current job of the session
\* and clean_jobs = true.
C18_AuthorizeSequence ==
    \A s \in Sess :
        (/\ cur[s].method = "mining.authorize"
         /\ pc[s] = "enc"
         /\ IsNotify(Op(s).frame))
            => /\ out[s] = << Frame("sresult", cur[s].id, "true"),
                              Frame("req", 0, [method |-> "mining.set_difficulty",
                                               params |-> <<"diff">>]) >>
               /\ Op(s).frame = NotifyFrame(JobDetails[s], TRUE)

\* C19: at most MaxConn goroutines of sessions run at a time; the accept loop,
\* waiting at accept <- n with a constructed session, can start its goroutine
\* exactly when fewer than MaxConn run; and an extranonce is issued only in a
\* step that passes the policy gate and constructs a session, which takes no
\* slot before its goroutine starts.
C19_BoundedAccept ==
    [][/\ Cardinality(Running) <= MaxConn
       /\ Cardinality(Running') <= MaxConn
       /\ lpc = "sem" => (ENABLED Spawn <=> Cardinality(Running) < MaxConn)
       /\ Extranonces' \ Extranonces # {} =>
              /\ nSess' = nSess + 1 /\ lpc = "accept" /\ lpc' = "sem"
              /\ ip'[nSess'] \notin banned
              /\ Running' = Running
       /\ Running' \ Running # {} =>
              /\ lpc = "sem" /\ Running' \ Running = {nSess}
              /\ Cardinality(Running) < MaxConn]_vars

\* The accept loop waits with a constructed session while MaxConn goroutines
\* run.
C19_Witness ==
    /\ lpc = "sem"
    /\ Cardinality(Running) = MaxConn
    /\ pc[nSess] = "new"

\* C20: the seed and header handed to the share sink for a mining.submit that
\* names a job made from a template are those of the job the session holds
\* under the submitted job ID at that moment: of the current job if the ID is
\* its ID, else of the cached job with that ID.
C20_ForwardedJobConsistent ==
    [][\A s \in Sess :
          (/\ cur[s].method = "mining.submit"
           /\ fwd'[s] # fwd[s] /\ fwd'[s] # <<>>
           /\ cur[s].params[2] # 0) =>
              LET job == cur[s].params[2] IN
              IF job = JobDetails[s].JobID
              THEN /\ fwd'[s][2] = JobDetails[s].SeedHash
                   /\ fwd'[s][3] = JobDetails[s].HeaderHash
              ELSE /\ job \in DOMAIN staleJobs[s]
                   /\ fwd'[s][2] = staleJobs[s][job].SeedHash
                   /\ fwd'[s][3] = staleJobs[s][job].HeaderHash]_vars

\* The step is a call of removeSession(s): by s's reader task after EOF
\* (stratum.go:82-84 via handleTCPClient), after an error (stratum.go:80-81)
\* or by a broadcast worker after a failed push (stratum.go:652-655).
RemovesSession(s) ==
    \/ pc[s] = "eof_rm" /\ pc'[s] = "ret_nil"
    \/ pc[s] = "ret_err" /\ pc'[s] = "closing"
    \/ \E b \in Bcasts : wk[b][s].st = "failed" /\ wk'[b][s].st = "none"

\* s logged in, which registered it, and is registered no longer: an earlier
\* removeSession(s) took it out of the session table.
RemovedEarlier(s) == login[s] # "" /\ s \notin sessions

\* C21: removeSession(cs) releases only cs's own extranonce: a call for a
\* session that was already removed earlier never deletes the registry entry of
\* another, registered session whose reader task is running, also when that
\* session has meanwhile been issued the same value; its extranonce stays in
\* the set of held extranonces.
C21_ReleasesOnlyOwn ==
    [][\A s \in Sess : (RemovedEarlier(s) /\ RemovesSession(s)) =>
          \A o \in Sess \ {s} :
              (o \in sessions /\ ReaderLive(o) /\ Extranonce[o] \in Extranonces)
                  => Extranonce[o] \in Extranonces']_vars

\* A call of removeSession(s) has been made and waits for sessionsMu.Lock: by
\* s's reader task or by a broadcast worker.
RemovePending(s) ==
    \/ pc[s] \in {"eof_rm", "ret_err"}
    \/ \E b \in Bcasts : wk[b][s].st = "failed"

\* uniqExtranonce has been called and has not returned: it holds the read lock.
IssuePending == lpc = "spin"

\* C22: lock progress: under fair scheduling every call of removeSession
\* eventually acquires the lock and completes, and every call of
\* uniqExtranonce eventually returns and releases the lock, whatever the number
\* of held extranonces and of workers waiting to remove failed sessions.
C22_LockProgress ==
    /\ \A s \in Sess : RemovePending(s) ~> ~RemovePending(s)
    /\ IssuePending ~> ~IssuePending

====
